---- MODULE Spec2Model ----
(***************************************************************************)
(* Model of src/make_table.py: the daily earnings-movers report.           *)
(*                                                                         *)
(* Python strings are sequences of one-character strings, so that strip,   *)
(* upper, lower, replace and the substring test of the keyword filter are  *)
(* computed and not assumed.  An optional value (a Python value that may   *)
(* be None) is None == <<>> or Some(v) == <<v>>.                           *)
(***************************************************************************)
EXTENDS Integers, Sequences, FiniteSets, Bags, TLC

VARIABLES
    env,        \* os.environ.get("POLYGON_API_KEY"): optional string
    today,      \* the value dt.date.today().isoformat() returns
    files,      \* the file system under docs/: file name -> content
    pc,         \* position of the program
    API_KEY,    \* module global API_KEY (line 7)
    date_str,   \* main: date_str
    tickers,    \* main: tickers
    i,          \* main: position of the for loop in tickers (1-based)
    headline,   \* main: headline (optional string)
    chg,        \* main: chg (optional number)
    resp,       \* the response of the last external call
    matches,    \* main: matches
    html        \* main: html

vars == <<env, today, files, pc, API_KEY, date_str, tickers, i, headline,
          chg, resp, matches, html>>

(***************************************************************************)
(* Bounds of the model and constants of the program                        *)
(***************************************************************************)
MAX_ROWS == 12
NEWS_PER_TICKER == 2

\* longest ticker list made of symbols whose lookups may fail in every way
MaxShort == 2
\* length of the ticker list made of index symbols (more than MAX_ROWS)
MaxLong == 13
\* fmt_pct is applied to every change from -MaxFmt/Scale to MaxFmt/Scale
MaxFmt == 60

\* A float change x is held as the integer x * Scale.  Every price of the
\* model is an integer and every positive open a power of two dividing
\* 100 * Scale, so (c - o) / o * 100.0 is exact in binary floating point
\* and equal to the fixed-point quotient below.
Scale == 1024

(***************************************************************************)
(* Python values                                                           *)
(***************************************************************************)
None == <<>>
Some(v) == <<v>>
Val(o) == o[1]

Min(a, b) == IF a <= b THEN a ELSE b
Abs(n) == IF n < 0 THEN -n ELSE n

LowerChars == <<"a","b","c","d","e","f","g","h","i","j","k","l","m",
                "n","o","p","q","r","s","t","u","v","w","x","y","z">>
UpperChars == <<"A","B","C","D","E","F","G","H","I","J","K","L","M",
                "N","O","P","Q","R","S","T","U","V","W","X","Y","Z">>
DigitChars == <<"0","1","2","3","4","5","6","7","8","9">>

IndexIn(c, alphabet) ==
    IF \E k \in 1..Len(alphabet) : alphabet[k] = c
    THEN CHOOSE k \in 1..Len(alphabet) : alphabet[k] = c
    ELSE 0

\* str.upper and str.lower
Upper(s) == [k \in 1..Len(s) |->
               IF IndexIn(s[k], LowerChars) > 0
               THEN UpperChars[IndexIn(s[k], LowerChars)] ELSE s[k]]
Lower(s) == [k \in 1..Len(s) |->
               IF IndexIn(s[k], UpperChars) > 0
               THEN LowerChars[IndexIn(s[k], UpperChars)] ELSE s[k]]

IsSpace(c) == c = " "

RECURSIVE LStrip(_)
LStrip(s) == IF s # <<>> /\ IsSpace(Head(s)) THEN LStrip(Tail(s)) ELSE s

RECURSIVE RStrip(_)
RStrip(s) == IF s # <<>> /\ IsSpace(s[Len(s)])
             THEN RStrip(SubSeq(s, 1, Len(s) - 1)) ELSE s

\* str.strip
Strip(s) == RStrip(LStrip(s))

\* str.replace(old, new) for one-character old and new
Replace(s, old, new) == [k \in 1..Len(s) |-> IF s[k] = old THEN new ELSE s[k]]

\* k in t, for strings
Contains(t, k) ==
    \E p \in 1..(Len(t) - Len(k) + 1) : SubSeq(t, p, p + Len(k) - 1) = k

\* the decimal digits of a natural number
RECURSIVE Decimal(_)
Decimal(n) == IF n < 10 THEN <<DigitChars[n + 1]>>
              ELSE Decimal(n \div 10) \o <<DigitChars[(n % 10) + 1]>>

(***************************************************************************)
(* The functions of the program                                            *)
(***************************************************************************)
EARNINGS_KEYWORDS == <<
    <<"e","a","r","n","i","n","g","s">>,
    <<"r","e","p","o","r","t","s">>,
    <<"e","p","s">>,
    <<"r","e","v","e","n","u","e">>,
    <<"b","e","a","t","s">>,
    <<"m","i","s","s","e","s">>,
    <<"p","r","o","f","i","t">>,
    <<"g","u","i","d","a","n","c","e">>,
    <<"q","u","a","r","t","e","r">>,
    <<"q","1">>,
    <<"q","2">>,
    <<"q","3">>,
    <<"q","4">>
>>

\* API_KEY = os.environ.get("POLYGON_API_KEY", "").strip()
LoadApiKeyNoStrip(e) == IF e = None THEN <<>> ELSE Val(e)
LoadApiKey(e) == Strip(IF e = None THEN <<>> ELSE Val(e))

\* looks_like_earnings(title), title an optional string
looks_like_earnings(title) ==
    LET t == Lower(IF title = None THEN <<>> ELSE Val(title))
    IN  \E k \in 1..Len(EARNINGS_KEYWORDS) : Contains(t, EARNINGS_KEYWORDS[k])

\* get_sp500_tickers, given the Symbol column of the table that was read
get_sp500_tickers(symbols) ==
    [k \in 1..Len(symbols) |-> Replace(Upper(Strip(symbols[k])), ".", "-")]

\* pick_date_str, given the date of the system clock
pick_date_str(clock) == clock

\* (c - o) / o * 100.0, as the integer change * Scale
PctChange(o, c) == ((c - o) * 100 * Scale) \div o

\* safe_daily_change_pct, given the response r of client.get_aggs
safe_daily_change_pct_neg_open(r) ==
    IF r.raises THEN None
    ELSE IF r.bars = <<>> THEN None
    ELSE LET o == r.bars[1].open
             c == r.bars[1].close
         IN  IF o = None \/ Val(o) = 0 \/ c = None THEN None
             ELSE Some(PctChange(Val(o), Val(c)))
safe_daily_change_pct(r) ==
    IF r.raises THEN None
    ELSE IF r.bars = <<>> THEN None
    ELSE LET o == r.bars[1].open
             c == r.bars[1].close
         IN  IF o = None \/ Val(o) = 0 \/ Val(o) <= 0 \/ c = None THEN None
             ELSE Some(PctChange(Val(o), Val(c)))

\* safe_company_name, given the response r of client.get_ticker_details
safe_company_name_none_only(ticker, r) ==
    IF r.raises THEN ticker
    ELSE IF r.name = None THEN ticker ELSE Val(r.name)
safe_company_name(ticker, r) ==
    IF r.raises THEN ticker
    ELSE IF r.name = None \/ Val(r.name) = <<>> THEN ticker ELSE Val(r.name)

\* the loop of latest_earnings_headline over the items from position k
RECURSIVE FirstEarningsTitle(_, _)
FirstEarningsTitle(items, k) ==
    IF k > Len(items) THEN None
    ELSE LET title == IF items[k].title = None THEN <<>> ELSE Val(items[k].title)
         IN  IF looks_like_earnings(Some(title)) THEN Some(title)
             ELSE FirstEarningsTitle(items, k + 1)

\* latest_earnings_headline, given the response r of client.list_ticker_news
latest_earnings_headline_any_title(r) ==
    IF r.raises \/ r.items = <<>> THEN None
    ELSE Some(IF r.items[1].title = None THEN <<>> ELSE Val(r.items[1].title))
latest_earnings_headline(r) ==
    IF r.raises THEN None ELSE FirstEarningsTitle(r.items, 1)

\* n / d rounded to the nearest integer, ties to even (n >= 0, d > 0)
RoundHalfEven(n, d) ==
    LET q == n \div d
        r == n % d
    IN  IF 2 * r > d \/ (2 * r = d /\ q % 2 = 1) THEN q + 1 ELSE q

\* f"{x:.1f}" for the float x = v / Scale
FormatF1(v) ==
    LET tenths == RoundHalfEven(Abs(v) * 10, Scale)
    IN  (IF v < 0 THEN <<"-">> ELSE <<>>)
        \o Decimal(tenths \div 10) \o <<".">> \o Decimal(tenths % 10)

\* render_html.fmt_pct, x an optional number
fmt_pct_sign_of_zero(x) ==
    IF x = None THEN <<>>
    ELSE (IF Val(x) >= 0 THEN <<"+">> ELSE <<>>) \o FormatF1(Val(x)) \o <<"%">>
fmt_pct(x) ==
    IF x = None THEN <<>>
    ELSE (IF Val(x) > 0 THEN <<"+">> ELSE <<>>) \o FormatF1(Val(x)) \o <<"%">>

\* render_html: the document is the title and the cells of the body rows;
\* the rest of the template is constant text
render_html(rows, d) ==
    [title |-> <<"Notes (", d, ")">>,
     rows  |-> [k \in 1..Len(rows) |->
                  [company |-> rows[k].company,
                   ticker  |-> rows[k].ticker,
                   change  |-> fmt_pct(rows[k].change),
                   note    |-> rows[k].note]]]

\* list.sort(key=lambda x: x["change"], reverse=True): a stable sort,
\* rows of equal change keep their order
RECURSIVE InsertDesc(_, _)
InsertDesc(sorted, row) ==
    IF sorted = <<>> THEN <<row>>
    ELSE IF Val(Head(sorted).change) >= Val(row.change)
         THEN <<Head(sorted)>> \o InsertDesc(Tail(sorted), row)
         ELSE <<row>> \o sorted

RECURSIVE InsertAsc(_, _)
InsertAsc(sorted, row) ==
    IF sorted = <<>> THEN <<row>>
    ELSE IF Val(Head(sorted).change) <= Val(row.change)
         THEN <<Head(sorted)>> \o InsertAsc(Tail(sorted), row)
         ELSE <<row>> \o sorted

RECURSIVE SortAsc(_)
SortAsc(rows) ==
    IF rows = <<>> THEN <<>>
    ELSE InsertAsc(SortAsc(SubSeq(rows, 1, Len(rows) - 1)), rows[Len(rows)])

Reverse(s) == [k \in 1..Len(s) |-> s[Len(s) + 1 - k]]

\* what sorted(...)[::-1] would do: descending, ties in reverse order
SortAscReversed(rows) == Reverse(SortAsc(rows))

RECURSIVE SortDesc(_)
SortDesc(rows) ==
    IF rows = <<>> THEN <<>>
    ELSE InsertDesc(SortDesc(SubSeq(rows, 1, Len(rows) - 1)), rows[Len(rows)])

\* matches[:MAX_ROWS]
TruncateNone(rows) == rows
Truncate(rows) == SubSeq(rows, 1, Min(MAX_ROWS, Len(rows)))

INDEX_FILE == <<"docs/index.html">>
\* f"docs/daily_table_{date_str}.html"
ArchiveFileUndated(d) == <<"docs/daily_table_", ".html">>
ArchiveFile(d) == <<"docs/daily_table_", d, ".html">>

\* open(name, "w").write(content)
WriteFile(fs, name, content) ==
    [n \in DOMAIN fs \cup {name} |-> IF n = name THEN content ELSE fs[n]]

(***************************************************************************)
(* The environment: what the external calls can answer                     *)
(***************************************************************************)
Dates == {"2024-01-02", "2024-01-03"}

\* the value of POLYGON_API_KEY: unset, empty, blank, or a key between blanks
EnvValues == {None, Some(<<>>), Some(<<" ", " ">>), Some(<<" ", "k", " ">>)}

\* docs/ before the run: the report of an earlier run on the first date
OldHtml == [title |-> <<"Notes (", "2024-01-02", ")">>, rows |-> <<>>]
NoHtml == [title |-> <<>>, rows |-> <<>>]
FilesBefore ==
    [n \in {INDEX_FILE, ArchiveFile("2024-01-02")} |-> OldHtml]

\* Symbols whose lookups can answer in every way.  Two pairs normalise to
\* the same ticker.
ProbeSymbols == {<<" ","a">>, <<"A">>, <<"b",".","b">>, <<"B","-","B">>}

\* Symbols of the long list: their lookups succeed, and only the close varies.
IndexSymbol(k) == <<"t", LowerChars[k]>>
IndexTickers == {Upper(IndexSymbol(k)) : k \in 1..Len(LowerChars)}

RECURSIVE SeqsUpTo(_, _)
SeqsUpTo(S, n) ==
    IF n = 0 THEN {<<>>}
    ELSE LET shorter == SeqsUpTo(S, n - 1)
         IN  shorter \cup {Append(q, x) : q \in shorter, x \in S}

LongList == [k \in 1..MaxLong |-> IndexSymbol(k)]

NoResp == [api |-> "none"]

\* pd.read_html(WIKI_SP500_URL), tables[0], df["Symbol"]
WikiResponses ==
    {[api |-> "wiki", raises |-> TRUE, symbols |-> <<>>]}
    \cup {[api |-> "wiki", raises |-> FALSE, symbols |-> q] :
            q \in SeqsUpTo(ProbeSymbols, MaxShort) \cup {LongList}}

TitleEps == <<"Q","2"," ","E","P","S">>
TitleProfit == <<"P","r","o","f","i","t"," ","u","p">>
TitleBeat == <<"B","e","a","t">>

Item(title) == [title |-> title]

\* client.list_ticker_news(ticker, limit=NEWS_PER_TICKER, ...)
NewsResponses(ticker) ==
    IF ticker \in IndexTickers
    THEN {[api |-> "news", raises |-> FALSE, items |-> <<Item(Some(TitleEps))>>]}
    ELSE {[api |-> "news", raises |-> TRUE, items |-> <<>>]}
         \cup {[api |-> "news", raises |-> FALSE, items |-> q] : q \in {
                 <<>>,
                 <<Item(None)>>,
                 <<Item(Some(<<>>))>>,
                 <<Item(Some(TitleBeat)), Item(None)>>,
                 <<Item(Some(TitleEps))>>,
                 <<Item(Some(TitleBeat)), Item(Some(TitleEps))>>,
                 <<Item(Some(TitleProfit)), Item(Some(TitleEps))>>}}

Bar(o, c) == [open |-> o, close |-> c]

\* client.get_aggs(ticker, 1, "day", date_str, date_str, adjusted=True)
BarsResponses(ticker) ==
    IF ticker \in IndexTickers
    THEN {[api |-> "aggs", raises |-> FALSE, bars |-> <<Bar(Some(4096), Some(c))>>] :
            c \in {4096 + 256, 4096 - 3}}
    ELSE {[api |-> "aggs", raises |-> TRUE, bars |-> <<>>]}
         \cup {[api |-> "aggs", raises |-> FALSE, bars |-> q] : q \in {
                 <<>>,
                 <<Bar(None, Some(4096))>>,
                 <<Bar(Some(0), Some(4096))>>,
                 <<Bar(Some(-4096), Some(4096))>>,
                 <<Bar(Some(4096), None)>>,
                 <<Bar(Some(4096), Some(4096 + 256))>>,
                 <<Bar(Some(4096), Some(4096))>>,
                 <<Bar(Some(2048), Some(2048 - 1)), Bar(Some(0), None)>>}}

NameAcme == <<"A","c","m","e">>

\* client.get_ticker_details(ticker)
DetailsResponses(ticker) ==
    IF ticker \in IndexTickers
    THEN {[api |-> "details", raises |-> FALSE, name |-> Some(NameAcme)]}
    ELSE {[api |-> "details", raises |-> TRUE, name |-> None]}
         \cup {[api |-> "details", raises |-> FALSE, name |-> n] :
                 n \in {None, Some(<<>>), Some(NameAcme)}}

(***************************************************************************)
(* The program                                                             *)
(***************************************************************************)
Init ==
    /\ env \in EnvValues
    /\ today \in Dates
    /\ files = FilesBefore
    /\ pc = "import"
    /\ API_KEY = <<>>
    /\ date_str = ""
    /\ tickers = <<>>
    /\ i = 1
    /\ headline = None
    /\ chg = None
    /\ resp = NoResp
    /\ matches = <<>>
    /\ html = NoHtml

\* lines 7-11: the module reads the credential, and raises without one
Import ==
    /\ pc = "import"
    /\ API_KEY' = LoadApiKey(env)
    /\ pc' = IF API_KEY' = <<>> THEN "aborted" ELSE "main"
    /\ UNCHANGED <<env, today, files, date_str, tickers, i, headline, chg,
                   resp, matches, html>>

\* the for loop of main: the next ticker, or the statement after the loop
LoopPc(ts, k) == IF k <= Len(ts) THEN "headline" ELSE "sort"

\* lines 178-181: the date and the ticker list; get_sp500_tickers catches
\* nothing, so a failure of pd.read_html leaves main as an exception
GetTickers ==
    /\ pc = "main"
    /\ date_str' = pick_date_str(today)
    /\ \E r \in WikiResponses :
         /\ resp' = r
         /\ IF r.raises
            THEN /\ pc' = "crashed"
                 /\ UNCHANGED <<tickers, i, matches>>
            ELSE /\ tickers' = get_sp500_tickers(r.symbols)
                 /\ matches' = <<>>
                 /\ i' = 1
                 /\ pc' = LoopPc(tickers', 1)
    /\ UNCHANGED <<env, today, files, API_KEY, headline, chg, html>>

\* lines 183-185: the headline of tickers[i]; without one, continue
Headline ==
    /\ pc = "headline"
    /\ \E r \in NewsResponses(tickers[i]) :
         /\ resp' = r
         /\ headline' = latest_earnings_headline(r)
    /\ IF headline' = None \/ Val(headline') = <<>>
       THEN /\ i' = i + 1
            /\ pc' = LoopPc(tickers, i + 1)
       ELSE /\ i' = i
            /\ pc' = "chg"
    /\ UNCHANGED <<env, today, files, API_KEY, date_str, tickers, chg,
                   matches, html>>

\* lines 187-189: the change of tickers[i]; without one, continue
Change ==
    /\ pc = "chg"
    /\ \E r \in BarsResponses(tickers[i]) :
         /\ resp' = r
         /\ chg' = safe_daily_change_pct(r)
    /\ IF chg' = None
       THEN /\ i' = i + 1
            /\ pc' = LoopPc(tickers, i + 1)
       ELSE /\ i' = i
            /\ pc' = "append"
    /\ UNCHANGED <<env, today, files, API_KEY, date_str, tickers, headline,
                   matches, html>>

\* lines 191-198: the row of tickers[i]
AppendRow ==
    /\ pc = "append"
    /\ \E r \in DetailsResponses(tickers[i]) :
         /\ resp' = r
         /\ matches' = Append(matches,
                [company |-> safe_company_name(tickers[i], r),
                 ticker  |-> tickers[i],
                 change  |-> chg,
                 note    |-> Val(headline)])
    /\ i' = i + 1
    /\ pc' = LoopPc(tickers, i + 1)
    /\ UNCHANGED <<env, today, files, API_KEY, date_str, tickers, headline,
                   chg, html>>

\* line 200
Sort ==
    /\ pc = "sort"
    /\ matches' = SortDesc(matches)
    /\ pc' = "truncate"
    /\ UNCHANGED <<env, today, files, API_KEY, date_str, tickers, i,
                   headline, chg, resp, html>>

\* line 201
Cut ==
    /\ pc = "truncate"
    /\ matches' = Truncate(matches)
    /\ pc' = "render"
    /\ UNCHANGED <<env, today, files, API_KEY, date_str, tickers, i,
                   headline, chg, resp, html>>

\* line 203
Render ==
    /\ pc = "render"
    /\ html' = render_html(matches, date_str)
    /\ pc' = "write_index"
    /\ UNCHANGED <<env, today, files, API_KEY, date_str, tickers, i,
                   headline, chg, resp, matches>>

\* lines 205-207
WriteIndex ==
    /\ pc = "write_index"
    /\ files' = WriteFile(files, INDEX_FILE, html)
    /\ pc' = "write_archive"
    /\ UNCHANGED <<env, today, API_KEY, date_str, tickers, i, headline, chg,
                   resp, matches, html>>

\* lines 208-211
WriteArchive ==
    /\ pc = "write_archive"
    /\ files' = WriteFile(files, ArchiveFile(date_str), html)
    /\ pc' = "done"
    /\ UNCHANGED <<env, today, API_KEY, date_str, tickers, i, headline, chg,
                   resp, matches, html>>

Next ==
    \/ Import
    \/ GetTickers
    \/ Headline
    \/ Change
    \/ AppendRow
    \/ Sort
    \/ Cut
    \/ Render
    \/ WriteIndex
    \/ WriteArchive

Spec == Init /\ [][Next]_vars

(***************************************************************************)
(* fmt_pct on its own: the renderer applied to one row of any change,      *)
(* null included (main never passes a null change to it)                   *)
(***************************************************************************)
FmtInputs ==
    {None} \cup {Some(v) : v \in (-MaxFmt)..MaxFmt}
    \cup {Some(v) : v \in {256, -256, 768, -768, 6400, -6400, 10240, -10240}}

InitFmt ==
    /\ env = Some(<<"k">>)
    /\ today = "2024-01-03"
    /\ files = FilesBefore
    /\ pc = "render"
    /\ API_KEY = <<"k">>
    /\ date_str = today
    /\ tickers = <<<<"A">>>>
    /\ i = 2
    /\ headline = Some(TitleEps)
    /\ chg = None
    /\ resp = NoResp
    /\ \E x \in FmtInputs :
         matches = <<[company |-> NameAcme, ticker |-> <<"A">>,
                      change |-> x, note |-> TitleEps]>>
    /\ html = NoHtml

NextFmt ==
    \/ Render
    \/ WriteIndex
    \/ WriteArchive

SpecFmt == InitFmt /\ [][NextFmt]_vars

(***************************************************************************)
(* Properties                                                              *)
(***************************************************************************)
Range(q) == {q[k] : k \in DOMAIN q}
SeqToBag(q) == [x \in Range(q) |-> Cardinality({k \in DOMAIN q : q[k] = x})]
Last(q) == q[Len(q)]
\* the first position of ticker t in the candidate list
Pos(t) == CHOOSE k \in DOMAIN tickers :
            tickers[k] = t /\ \A j \in 1..(k - 1) : tickers[j] # t

\* out holds the rows of in, in non-increasing order of change
SortedByChangeDesc(in, out) ==
    /\ SeqToBag(out) = SeqToBag(in)
    /\ \A k \in 1..(Len(out) - 1) : Val(out[k].change) >= Val(out[k + 1].change)

\* out is min(MAX_ROWS, n) rows of in, and no row left out beats a kept one
KeepsTheTop(in, out) ==
    /\ Len(out) = Min(MAX_ROWS, Len(in))
    /\ SeqToBag(out) \sqsubseteq SeqToBag(in)
    /\ \A left \in BagToSet(SeqToBag(in) (-) SeqToBag(out)) :
         \A k \in 1..Len(out) : Val(left.change) <= Val(out[k].change)
    /\ \A k \in 1..(Len(out) - 1) : Val(out[k].change) >= Val(out[k + 1].change)

\* C1: the rows passed to render_html are the first min(MAX_ROWS, n) of the
\* n eligible rows in descending order of change: the sort yields the
\* eligible rows in non-increasing order, the cut keeps min(MAX_ROWS, n) of
\* them, none left out has a greater change than one kept, and the report
\* never has more than MAX_ROWS rows.
C1_TopRowsDescending ==
    [][/\ pc = "sort" => SortedByChangeDesc(matches, matches')
       /\ pc = "truncate" => KeepsTheTop(matches, matches')
       /\ pc' \in {"render", "write_index", "write_archive", "done"}
            => Len(matches') <= MAX_ROWS /\ Len(html'.rows) <= MAX_ROWS]_vars

\* more eligible rows than MAX_ROWS, sorted out of candidate order, with a
\* strictly greater change on the kept side of the cut
C1_Witness ==
    /\ pc = "truncate"
    /\ Len(matches) > MAX_ROWS
    /\ Val(matches[MAX_ROWS].change) > Val(matches[MAX_ROWS + 1].change)
    /\ \E k \in 1..MAX_ROWS : Pos(matches[k].ticker) > Pos(matches[k + 1].ticker)

BarOf(r) == r.bars[1]
BadBars(r) ==
    \/ r.raises
    \/ Len(r.bars) = 0
    \/ BarOf(r).open = None
    \/ Val(BarOf(r).open) <= 0
    \/ BarOf(r).close = None

C3_NoUncaughtException == API_KEY # <<>> => pc # "crashed"

Blank(e) == e = None \/ \A k \in DOMAIN Val(e) : Val(e)[k] = " "

\* C4: without a credential (unset, empty or blank) the program stops at
\* startup: no external call is made and no file is created or changed.
C4_NoCredentialNoOutput ==
    [][Blank(env) =>
         /\ files' = files
         /\ resp' = NoResp
         /\ pc' \in {"import", "aborted"}]_vars

\* the run with a blank credential has aborted, the files as they were
C4_Witness ==
    /\ pc = "aborted"
    /\ env = Some(<<" ", " ">>)
    /\ files = FilesBefore

NoEarningsHeadline(r) ==
    r.raises \/ \A k \in DOMAIN r.items : ~looks_like_earnings(r.items[k].title)

C6_NoTickerTwice ==
    \A p, q \in DOMAIN html.rows :
        p # q => html.rows[p].ticker # html.rows[q].ticker

\* C7: the company of a row is the name the details lookup returned when it
\* succeeded with a non-empty name, and the ticker itself when it raised or
\* returned a null or empty name; the row is added either way and the loop
\* goes on.
C7_CompanyNameOrTicker ==
    [][pc = "append" =>
         /\ Len(matches') = Len(matches) + 1
         /\ Last(matches').ticker = tickers[i]
         /\ Last(matches').company =
              IF ~resp'.raises /\ resp'.name # None /\ Val(resp'.name) # <<>>
              THEN Val(resp'.name) ELSE tickers[i]
         /\ pc' \in {"headline", "sort"}]_vars

\* the details lookup returned an empty name and the row took the ticker
C7_Witness ==
    /\ resp.api = "details"
    /\ ~resp.raises
    /\ resp.name = Some(<<>>)
    /\ matches # <<>>
    /\ Last(matches).company = Last(matches).ticker

\* C8: fmt_pct renders null as the empty string, and any other x as a
\* string that starts with "+" exactly when x > 0.
C8_PlusIffPositive ==
    html # NoHtml =>
        \A k \in DOMAIN html.rows :
            LET x == matches[k].change
                cell == html.rows[k].change
            IN  /\ x = None => cell = <<>>
                /\ x # None => cell # <<>> /\ (cell[1] = "+" <=> Val(x) > 0)

\* a positive change that rounds to 0.0 was rendered, with its "+"
C8_Witness ==
    /\ html.rows # <<>>
    /\ matches[1].change # None
    /\ Val(matches[1].change) > 0
    /\ html.rows[1].change = <<"+", "0", ".", "0", "%">>

\* C9: after a successful run docs/index.html and the archive file named
\* after the run's date both hold the html rendered from the selected rows,
\* and the date in the archive's name is the date in the document.
C9_BothFilesSameHtml ==
    pc = "done" =>
        /\ html = render_html(matches, date_str)
        /\ html.title = <<"Notes (", today, ")">>
        /\ <<"docs/index.html">> \in DOMAIN files
        /\ files[<<"docs/index.html">>] = html
        /\ <<"docs/daily_table_", today, ".html">> \in DOMAIN files
        /\ files[<<"docs/daily_table_", today, ".html">>] = html

\* a run on the second date is done: a report with rows is in both files,
\* and the archive of the first date is as it was
C9_Witness ==
    /\ pc = "done"
    /\ today = "2024-01-03"
    /\ html.rows # <<>>
    /\ files[INDEX_FILE] = html
    /\ files[ArchiveFile("2024-01-02")] = OldHtml

\* the place of row p in the descending stable order: after the rows of
\* greater change and the earlier rows of equal change
StableRank(in, p) ==
    1 + Cardinality({q \in DOMAIN in :
            \/ Val(in[q].change) > Val(in[p].change)
            \/ Val(in[q].change) = Val(in[p].change) /\ q < p})

\* C10: the sort is stable: rows of equal change keep the order of the
\* candidate list, so when a tie straddles the cut the earlier one is kept.
C10_StableSort ==
    [][/\ pc = "sort" =>
            /\ Len(matches') = Len(matches)
            /\ \A p \in DOMAIN matches :
                 matches'[StableRank(matches, p)] = matches[p]
       /\ pc = "truncate" =>
            /\ Len(matches') = Min(MAX_ROWS, Len(matches))
            /\ \A k \in DOMAIN matches' : matches'[k] = matches[k]]_vars

\* sorted, with a tie across the cut: the row on the kept side is the one
\* of the earlier candidate
C10_Witness ==
    /\ pc = "truncate"
    /\ Len(matches) > MAX_ROWS
    /\ matches[MAX_ROWS].change = matches[MAX_ROWS + 1].change
    /\ Pos(matches[MAX_ROWS].ticker) < Pos(matches[MAX_ROWS + 1].ticker)
    /\ Val(matches[1].change) > Val(matches[MAX_ROWS].change)

====
